---- MODULE Spec2Model ----
(***************************************************************************)
(* Live-update polling lifecycle of the fleet dashboard                    *)
(* (static/js/real-time-dashboard.js, class RealTimeDashboard).            *)
(*                                                                         *)
(* The browser is single threaded: every handler (a user event, a timer    *)
(* callback, the continuation of an awaited promise) runs to completion,   *)
(* so every handler is one action.  The object's methods are operators on  *)
(* a record of the program state; an action applies the handler's operator *)
(* to the current state.                                                   *)
(***************************************************************************)
EXTENDS Integers, Sequences, FiniteSets, TLC

VARIABLES
    isLiveMode,      \* this.isLiveMode
    updateInterval,  \* this.updateInterval (ms)
    updateTimer,     \* this.updateTimer: NULL or the handle setInterval returned
    timers,          \* browser: active repeating timers, handle -> period (ms)
    nextTimerId,     \* browser: the handle the next setInterval returns
    inflight,        \* ticks (fetchRealTimeData calls) awaiting Promise.all
    nextTick,        \* sequence number of the next tick started
    loading,         \* .loading-indicator elements displayed
    lastRefresh,     \* #lastRefreshTime: tick that wrote it last (0: never)
    charts,          \* names of the charts initializeCharts created
    trendLabels,     \* charts.carbonTrend.data.labels
    trendData,       \* charts.carbonTrend.data.datasets[0].data
    trendAppends,    \* number of points ever pushed to the trend chart
    snapshotGen,     \* tick that last replaced the doughnut / bar datasets
    lastOp,          \* the handler that ran last: name, argument, effects
    lastResp,        \* the responses the last resumed tick saw, per endpoint
    payload,         \* a /api/trucks payload: the status of each record
    counterCalls,    \* the animateCounter calls updateVehicleStats made for it
    now,             \* performance.now() and the frame timestamps, in ms
    element,         \* textContent of a counter element, as characters
    anim,            \* the animateCounter call made last on that element
    alertsContainer, \* does the page have the #maintenanceAlerts element?
    maintenanceData, \* a /api/maintenance_alerts payload
    alertsRender,    \* what updateMaintenanceAlerts did with that payload
    dom,             \* the toasts created: is each in the body, its content in it
    timeouts,        \* browser: pending setTimeout callbacks, toast -> due time
    clock,           \* the time, in ms
    removeCalls,     \* per toast, the calls of remove() made on it
    toastOp,         \* the toast handler that ran last, and its toast
    theme,           \* dark mode: the body's class, localStorage, the label
    themeLog         \* the page loads and toggles so far, each with its result

dashVars == <<isLiveMode, updateInterval, updateTimer, timers, nextTimerId,
          inflight, nextTick, loading, lastRefresh, charts, trendLabels,
          trendData, trendAppends, snapshotGen, lastOp, lastResp>>

statsVars == <<payload, counterCalls>>

animVars == <<now, element, anim>>

alertsVars == <<alertsContainer, maintenanceData, alertsRender>>

toastVars == <<dom, timeouts, clock, removeCalls, toastOp>>

themeVars == <<theme, themeLog>>

pageVars == <<alertsVars, toastVars, themeVars>>

vars == <<dashVars, statsVars, animVars, pageVars>>

-----------------------------------------------------------------------------
(* Bounds of the model *)

MaxTimerId == 3      \* handles setInterval hands out in one run
MaxTicks == 4        \* ticks started in one run of Spec
MaxBatchTicks == 2   \* ticks started in one run of SpecBatch
MaxChartTicks == 12  \* ticks started in one run of SpecChart
MaxOverlap == 2      \* ticks in flight at once in SpecChart
MaxVehicles == 8     \* records in a /api/trucks payload
MaxAnimations == 2   \* animateCounter calls in one run of SpecAnim
FramesPerDuration == 4   \* the clock advances by duration / FramesPerDuration

(* Program constants *)

NULL == 0                    \* null / undefined handle (falsy); handles are > 0
DefaultIntervalMs == 30000   \* constructor
TrendCap == 10               \* updateCarbonTrendChart
duration == 1000             \* animateCounter, ms

IntervalChoices == {5, 30}   \* <option> values of #updateInterval, in seconds

Endpoints == <<"trucks", "real_weather", "traffic_status",
               "maintenance_alerts", "employee_tracking">>
Renders == <<"updateVehicleStats", "updateWeatherInfo", "updateTrafficInfo",
             "updateMaintenanceAlerts", "updateLiveTracking">>
ChartNames == {"carbonTrend", "fuelConsumption", "efficiency"}

-----------------------------------------------------------------------------
(* The program state as one record, and back *)

Dash ==
    [isLiveMode |-> isLiveMode, updateInterval |-> updateInterval,
     updateTimer |-> updateTimer, timers |-> timers,
     nextTimerId |-> nextTimerId, inflight |-> inflight,
     nextTick |-> nextTick, loading |-> loading, lastRefresh |-> lastRefresh,
     charts |-> charts, trendLabels |-> trendLabels, trendData |-> trendData,
     trendAppends |-> trendAppends, snapshotGen |-> snapshotGen,
     notes |-> <<>>, rendered |-> <<>>, started |-> 0, outcome |-> "none"]

Apply(s, op, arg) ==
    /\ isLiveMode' = s.isLiveMode
    /\ updateInterval' = s.updateInterval
    /\ updateTimer' = s.updateTimer
    /\ timers' = s.timers
    /\ nextTimerId' = s.nextTimerId
    /\ inflight' = s.inflight
    /\ nextTick' = s.nextTick
    /\ loading' = s.loading
    /\ lastRefresh' = s.lastRefresh
    /\ charts' = s.charts
    /\ trendLabels' = s.trendLabels
    /\ trendData' = s.trendData
    /\ trendAppends' = s.trendAppends
    /\ snapshotGen' = s.snapshotGen
    /\ lastOp' = [op |-> op, arg |-> arg, notes |-> s.notes,
                  rendered |-> s.rendered, started |-> s.started,
                  outcome |-> s.outcome]
    /\ UNCHANGED <<statsVars, animVars, pageVars>>

-----------------------------------------------------------------------------
(* Browser services the controller uses *)

\* setInterval(callback, period): a new repeating timer under a fresh handle.
setInterval(s, period) ==
    [s EXCEPT !.timers = [h \in DOMAIN s.timers \cup {s.nextTimerId} |->
                             IF h = s.nextTimerId THEN period ELSE s.timers[h]],
              !.nextTimerId = @ + 1]

\* clearInterval(handle): cancels that timer; no effect on an unknown handle.
clearInterval(s, handle) ==
    [s EXCEPT !.timers = [h \in DOMAIN s.timers \ {handle} |-> s.timers[h]]]

\* One endpoint's answer as the tick sees it when Promise.all settles.
Pending == [net |-> "pending", status |-> 0, body |-> "none"]
NetworkError == [net |-> "error", status |-> 0, body |-> "none"]
Statuses == {200, 500}
Bodies == {"expected", "object", "notjson"}
    \* "expected": JSON of the shape the endpoint documents
    \* "object":   JSON of another shape, such as {"error": "..."}
    \* "notjson":  a body JSON.parse refuses
Responded == [net : {"ok"}, status : Statuses, body : Bodies]
Responses == {Pending, NetworkError} \cup Responded

-----------------------------------------------------------------------------
(* Notifications and loading indicators *)

showNotification(s, type) == [s EXCEPT !.notes = Append(@, type)]

showLoadingIndicators(s) == [s EXCEPT !.loading = TRUE]

hideLoadingIndicators(s) == [s EXCEPT !.loading = FALSE]

\* Faulty variant: a tick older than the one shown does not write the time.
updateLastRefreshTime_ignoresStale(s, t) ==
    IF t < s.lastRefresh THEN s ELSE [s EXCEPT !.lastRefresh = t]

updateLastRefreshTime(s, t) == [s EXCEPT !.lastRefresh = t]

-----------------------------------------------------------------------------
(* Charts *)

\* Faulty variant: on overflow only the labels are shifted.
updateCarbonTrendChart_shiftsLabelsOnly(s, t) ==
    LET labels == Append(s.trendLabels, s.trendAppends + 1)
        data == Append(s.trendData, s.trendAppends + 1)
        over == Len(labels) > TrendCap
    IN [s EXCEPT !.trendLabels = IF over THEN Tail(labels) ELSE labels,
                 !.trendData = data,
                 !.trendAppends = @ + 1]

\* The point pushed is (time of the push, Math.random() sample): both are
\* named by the ordinal of the push, the k-th push adding label k, sample k.
updateCarbonTrendChart(s, t) ==
    LET labels == Append(s.trendLabels, s.trendAppends + 1)
        data == Append(s.trendData, s.trendAppends + 1)
        over == Len(labels) > TrendCap
    IN [s EXCEPT !.trendLabels = IF over THEN Tail(labels) ELSE labels,
                 !.trendData = IF over THEN Tail(data) ELSE data,
                 !.trendAppends = @ + 1]

updateFuelConsumptionChart(s, t) ==
    [s EXCEPT !.snapshotGen.fuelConsumption = t]

updateEfficiencyChart(s, t) ==
    [s EXCEPT !.snapshotGen.efficiency = t]

updateCharts(s, t) ==
    LET s1 == IF "carbonTrend" \in s.charts
              THEN updateCarbonTrendChart(s, t) ELSE s
        s2 == IF "fuelConsumption" \in s1.charts
              THEN updateFuelConsumptionChart(s1, t) ELSE s1
    IN IF "efficiency" \in s2.charts THEN updateEfficiencyChart(s2, t) ELSE s2

-----------------------------------------------------------------------------
(* A tick: fetchRealTimeData *)

\* fetchVehicleData .. fetchTrackingData: await fetch(url), then
\* await response.json().  The status of the response is not looked at.
fetchEndpointData(r) ==
    IF r.net = "pending" THEN "pending"
    ELSE IF r.net = "error" THEN "rejected"
    ELSE IF r.body = "notjson" THEN "rejected"
    ELSE "fulfilled"

\* Faulty variant: waits for all five and takes a rejection for a value.
PromiseAll_ignoreRejections(results) ==
    IF \E i \in DOMAIN results : results[i] = "pending" THEN "pending"
    ELSE "fulfilled"

\* Faulty variant: settles with the first value, as Promise.any would.
PromiseAll_firstValueWins(results) ==
    IF \E i \in DOMAIN results : results[i] = "rejected" THEN "rejected"
    ELSE IF \E i \in DOMAIN results : results[i] = "fulfilled" THEN "fulfilled"
    ELSE "pending"

\* Promise.all over the five fetches.
PromiseAll(results) ==
    IF \E i \in DOMAIN results : results[i] = "rejected" THEN "rejected"
    ELSE IF \A i \in DOMAIN results : results[i] = "fulfilled" THEN "fulfilled"
    ELSE "pending"

\* Does render step i throw on this parsed body?  updateVehicleStats calls
\* data.filter, which only an array has; the other four read properties of
\* the value and skip what is missing.
RenderThrows(i, body) == i = 1 /\ body = "object"

\* The synchronous part of fetchRealTimeData, up to the await: the loading
\* indicators are shown and the five fetches are issued.
fetchRealTimeData(s) ==
    LET s1 == showLoadingIndicators(s)
    IN [s1 EXCEPT !.inflight = @ \cup {s1.nextTick},
                  !.nextTick = @ + 1,
                  !.started = @ + 1]

\* Faulty variant: the catch block also gives up polling.
fetchRealTimeDataCatch_stopsPolling(s) ==
    LET s1 == showNotification(s, "error")
        s2 == hideLoadingIndicators(s1)
        s3 == [s2 EXCEPT !.timers = [h \in DOMAIN s2.timers \ {s2.updateTimer}
                                        |-> s2.timers[h]],
                         !.updateTimer = NULL]
    IN [s3 EXCEPT !.outcome = "failed"]

\* Faulty variant: the catch block leaves the loading indicators shown.
fetchRealTimeDataCatch_keepsLoading(s) ==
    LET s1 == showNotification(s, "error")
    IN [s1 EXCEPT !.outcome = "failed"]

\* The catch block.
fetchRealTimeDataCatch(s) ==
    LET s1 == showNotification(s, "error")
        s2 == hideLoadingIndicators(s1)
    IN [s2 EXCEPT !.outcome = "failed"]

\* Faulty variant: the charts are updated before the payloads are rendered.
fetchRealTimeDataResume_chartsFirst(s, t, resp) ==
    LET results == [i \in DOMAIN resp |-> fetchEndpointData(resp[i])]
        s0 == [s EXCEPT !.inflight = @ \ {t}]
        throwers == {i \in DOMAIN resp : RenderThrows(i, resp[i].body)}
        first == CHOOSE i \in throwers : \A j \in throwers : i <= j
    IN IF PromiseAll(results) = "rejected" THEN fetchRealTimeDataCatch(s0)
       ELSE IF throwers # {}
       THEN fetchRealTimeDataCatch(
                [updateCharts(s0, t) EXCEPT
                    !.rendered = SubSeq(Renders, 1, first)])
       ELSE LET s1 == [updateCharts(s0, t) EXCEPT !.rendered = Renders]
                s3 == hideLoadingIndicators(s1)
                s4 == updateLastRefreshTime(s3, t)
            IN [s4 EXCEPT !.outcome = "rendered"]

\* The rest of fetchRealTimeData, run when Promise.all has settled for tick t
\* with the answers resp.
fetchRealTimeDataResume(s, t, resp) ==
    LET results == [i \in DOMAIN resp |-> fetchEndpointData(resp[i])]
        s0 == [s EXCEPT !.inflight = @ \ {t}]
        throwers == {i \in DOMAIN resp : RenderThrows(i, resp[i].body)}
        first == CHOOSE i \in throwers : \A j \in throwers : i <= j
    IN IF PromiseAll(results) = "rejected" THEN fetchRealTimeDataCatch(s0)
       ELSE IF throwers # {}
       THEN fetchRealTimeDataCatch(
                [s0 EXCEPT !.rendered = SubSeq(Renders, 1, first)])
       ELSE LET s1 == [s0 EXCEPT !.rendered = Renders]
                s2 == updateCharts(s1, t)
                s3 == hideLoadingIndicators(s2)
                s4 == updateLastRefreshTime(s3, t)
            IN [s4 EXCEPT !.outcome = "rendered"]

-----------------------------------------------------------------------------
(* Timer lifecycle *)

\* Faulty variant: the old timer is not cleared before a new one is set.
startLiveUpdates_noClear(s) ==
    LET s2 == [setInterval(s, s.updateInterval)
                  EXCEPT !.updateTimer = s.nextTimerId]
    IN fetchRealTimeData(s2)

\* Faulty variant: no initial fetch, the first tick waits for the first period.
startLiveUpdates_noInitialFetch(s) ==
    LET s1 == IF s.updateTimer # NULL
              THEN clearInterval(s, s.updateTimer) ELSE s
    IN [setInterval(s1, s1.updateInterval) EXCEPT !.updateTimer = s1.nextTimerId]

startLiveUpdates(s) ==
    LET s1 == IF s.updateTimer # NULL
              THEN clearInterval(s, s.updateTimer) ELSE s
        s2 == [setInterval(s1, s1.updateInterval)
                  EXCEPT !.updateTimer = s1.nextTimerId]
    IN fetchRealTimeData(s2)

\* Faulty variant: stopping also abandons the ticks in flight.
stopLiveUpdates_cancelsTicks(s) ==
    LET s1 == [s EXCEPT !.inflight = {}]
    IN IF s1.updateTimer # NULL
       THEN [clearInterval(s1, s1.updateTimer) EXCEPT !.updateTimer = NULL]
       ELSE s1

\* Faulty variant: the timer is cleared and the handle kept.
stopLiveUpdates_keepsHandle(s) ==
    IF s.updateTimer # NULL THEN clearInterval(s, s.updateTimer) ELSE s

stopLiveUpdates(s) ==
    IF s.updateTimer # NULL
    THEN [clearInterval(s, s.updateTimer) EXCEPT !.updateTimer = NULL]
    ELSE s

restartLiveUpdates(s) ==
    LET s1 == stopLiveUpdates(s)
    IN IF s1.isLiveMode THEN startLiveUpdates(s1) ELSE s1

\* Faulty variant: the callback fetches whatever the mode is.
intervalCallback_unconditional(s) == fetchRealTimeData(s)

\* The callback startLiveUpdates hands to setInterval.
intervalCallback(s) ==
    IF s.isLiveMode THEN fetchRealTimeData(s) ELSE s

\* Faulty variant: disabling clears the flag and leaves the timer running.
toggleLiveMode_noStop(s, enabled) ==
    LET s1 == [s EXCEPT !.isLiveMode = enabled]
    IN IF enabled
       THEN showNotification(startLiveUpdates(s1), "success")
       ELSE showNotification(s1, "info")

toggleLiveMode(s, enabled) ==
    LET s1 == [s EXCEPT !.isLiveMode = enabled]
    IN IF enabled
       THEN showNotification(startLiveUpdates(s1), "success")
       ELSE showNotification(stopLiveUpdates(s1), "info")

\* Faulty variant: the new interval is stored and the timer left running.
onIntervalChange_noRestart(s, seconds) ==
    [s EXCEPT !.updateInterval = seconds * 1000]

\* change handler of #updateInterval; seconds is parseInt(e.target.value).
onIntervalChange(s, seconds) ==
    LET s1 == [s EXCEPT !.updateInterval = seconds * 1000]
    IN IF s1.isLiveMode THEN restartLiveUpdates(s1) ELSE s1

refreshAllData(s) == fetchRealTimeData(showNotification(s, "info"))

\* initializeCharts: a chart is created for every canvas the page has.
initializeCharts(s, canvases) == [s EXCEPT !.charts = canvases]

init(s, canvases) == startLiveUpdates(initializeCharts(s, canvases))

constructor(canvases) ==
    init([isLiveMode |-> FALSE, updateInterval |-> DefaultIntervalMs,
          updateTimer |-> NULL, timers |-> <<>>, nextTimerId |-> 1,
          inflight |-> {}, nextTick |-> 1, loading |-> FALSE,
          lastRefresh |-> 0, charts |-> {}, trendLabels |-> <<>>,
          trendData |-> <<>>, trendAppends |-> 0,
          snapshotGen |-> [fuelConsumption |-> 0, efficiency |-> 0],
          notes |-> <<>>, rendered |-> <<>>, started |-> 0,
          outcome |-> "none"],
         canvases)

-----------------------------------------------------------------------------
(* Answers of the five endpoints to one tick *)

AllOk == [i \in DOMAIN Endpoints |-> [net |-> "ok", status |-> 200,
                                      body |-> "expected"]]

NoResp == <<>>

\* For every set of endpoints that reject and every way of rejecting (no
\* connection, a 200 or a 500 whose body is not JSON), with the other
\* endpoints all pending, all answering as documented, or all answering 500
\* with an error object; and every combination of the five endpoints
\* answering 200 as documented or 500 with an error object.
BatchAnswers ==
    LET Rejecting == {NetworkError,
                      [net |-> "ok", status |-> 200, body |-> "notjson"],
                      [net |-> "ok", status |-> 500, body |-> "notjson"]}
        Others == {Pending,
                   [net |-> "ok", status |-> 200, body |-> "expected"],
                   [net |-> "ok", status |-> 500, body |-> "object"]}
        Parsed == {[net |-> "ok", status |-> 200, body |-> "expected"],
                   [net |-> "ok", status |-> 500, body |-> "object"]}
    IN {[i \in DOMAIN Endpoints |-> IF i \in S THEN r ELSE o] :
            S \in SUBSET (DOMAIN Endpoints) \ {{}}, r \in Rejecting, o \in Others}
       \cup [DOMAIN Endpoints -> Parsed]

\* One combination for each way a tick can end: all five answer as
\* documented; /api/trucks fails on the network while the others are pending;
\* one body is not JSON; /api/trucks answers 500 with an error object (its
\* render throws); the weather endpoint answers 500 with an error object.
SampleAnswers ==
    {AllOk,
     [j \in DOMAIN Endpoints |-> IF j = 1 THEN NetworkError ELSE Pending],
     [AllOk EXCEPT ![3] = [net |-> "ok", status |-> 200, body |-> "notjson"]],
     [AllOk EXCEPT ![1] = [net |-> "ok", status |-> 500, body |-> "object"]],
     [AllOk EXCEPT ![2] = [net |-> "ok", status |-> 500, body |-> "object"]]}

-----------------------------------------------------------------------------
(* Initial state: the page has loaded and new RealTimeDashboard() has run *)

InitWith(s) ==
    /\ isLiveMode = s.isLiveMode
    /\ updateInterval = s.updateInterval
    /\ updateTimer = s.updateTimer
    /\ timers = s.timers
    /\ nextTimerId = s.nextTimerId
    /\ inflight = s.inflight
    /\ nextTick = s.nextTick
    /\ loading = s.loading
    /\ lastRefresh = s.lastRefresh
    /\ charts = s.charts
    /\ trendLabels = s.trendLabels
    /\ trendData = s.trendData
    /\ trendAppends = s.trendAppends
    /\ snapshotGen = s.snapshotGen
    /\ lastOp = [op |-> "constructor", arg |-> 0, notes |-> s.notes,
                 rendered |-> s.rendered, started |-> s.started,
                 outcome |-> s.outcome]
    /\ lastResp = NoResp

\* No payload being rendered and no counter being animated.
StatsIdle == payload = <<>> /\ counterCalls = <<>>

NoAnim == [active |-> FALSE, startValue |-> 0, targetValue |-> 0,
           suffix |-> <<>>, startTime |-> 0, calls |-> 0, lastFrame |-> -1]

AnimIdle == now = 0 /\ element = <<"0">> /\ anim = NoAnim

\* No maintenance payload handed to updateMaintenanceAlerts yet.
NoData == [hasAlerts |-> FALSE, alerts |-> <<>>]

NotRendered == [called |-> FALSE, innerHTML |-> <<>>, notes |-> <<>>]

AlertsIdle ==
    /\ alertsContainer = TRUE
    /\ maintenanceData = NoData
    /\ alertsRender = NotRendered

\* No toast was ever created.
ToastIdle ==
    /\ dom = [toast |-> <<>>, content |-> <<>>]
    /\ timeouts = <<>>
    /\ clock = 0
    /\ removeCalls = <<>>
    /\ toastOp = [op |-> "none", id |-> 0]

\* The page of a profile that has no darkMode item stored.
ThemeIdle ==
    /\ theme = [dark |-> FALSE, store |-> <<>>, label |-> "markup"]
    /\ themeLog = <<>>

PageIdle == AlertsIdle /\ ToastIdle /\ ThemeIdle

\* The dashboard page has the three canvases, or none of them.
Init ==
    /\ \E canvases \in {ChartNames, {}} : InitWith(constructor(canvases))
    /\ StatsIdle
    /\ AnimIdle
    /\ PageIdle

-----------------------------------------------------------------------------
(* Handlers *)

\* The model stops handing out handles and tick numbers at its bounds.
Within(s, maxTicks) ==
    /\ s.nextTimerId <= MaxTimerId + 1
    /\ s.nextTick <= maxTicks + 1

Handle(s, op, arg, maxTicks) ==
    /\ Within(s, maxTicks)
    /\ Apply(s, op, arg)
    /\ lastResp' = NoResp

ToggleLiveMode(maxTicks) ==
    \E enabled \in BOOLEAN :
        Handle(toggleLiveMode(Dash, enabled), "toggleLiveMode",
               IF enabled THEN 1 ELSE 0, maxTicks)

IntervalChange(maxTicks) ==
    \E seconds \in IntervalChoices :
        Handle(onIntervalChange(Dash, seconds), "onIntervalChange", seconds,
               maxTicks)

RefreshClick(maxTicks) ==
    Handle(refreshAllData(Dash), "refreshAllData", 0, maxTicks)

StartLiveUpdates(maxTicks) ==
    Handle(startLiveUpdates(Dash), "startLiveUpdates", 0, maxTicks)

StopLiveUpdates(maxTicks) ==
    Handle(stopLiveUpdates(Dash), "stopLiveUpdates", 0, maxTicks)

RestartLiveUpdates(maxTicks) ==
    Handle(restartLiveUpdates(Dash), "restartLiveUpdates", 0, maxTicks)

\* A repeating timer fires: its callback runs.
TimerFire(maxTicks) ==
    \E h \in DOMAIN timers :
        Handle(intervalCallback(Dash), "intervalCallback", h, maxTicks)

\* Promise.all of an in-flight tick settles and the tick runs to its end.
TickResume(answers) ==
    \E t \in inflight, resp \in answers :
        /\ PromiseAll([i \in DOMAIN resp |-> fetchEndpointData(resp[i])])
               # "pending"
        /\ Apply(fetchRealTimeDataResume(Dash, t, resp),
                 "fetchRealTimeDataResume", t)
        /\ lastResp' = resp

Next ==
    \/ ToggleLiveMode(MaxTicks)
    \/ IntervalChange(MaxTicks)
    \/ RefreshClick(MaxTicks)
    \/ StartLiveUpdates(MaxTicks)
    \/ StopLiveUpdates(MaxTicks)
    \/ RestartLiveUpdates(MaxTicks)
    \/ TimerFire(MaxTicks)
    \/ TickResume(SampleAnswers)

Spec == Init /\ [][Next]_vars

\* The fetch batch alone: ticks started by the page load and by the refresh
\* button, under every combination of answers of BatchAnswers.
NextBatch ==
    \/ RefreshClick(MaxBatchTicks)
    \/ TickResume(BatchAnswers)

SpecBatch == Init /\ [][NextBatch]_vars

\* The join of the five fetches: at any moment each fetch of a tick in flight
\* is pending, has failed on the network or has answered as documented, in
\* every combination; /api/trucks may also have answered 500 with an error
\* object, on which its render throws.
BarrierAnswers ==
    LET Documented == [net |-> "ok", status |-> 200, body |-> "expected"]
        ErrorObject == [net |-> "ok", status |-> 500, body |-> "object"]
    IN {resp \in [DOMAIN Endpoints ->
                     {Pending, NetworkError, Documented, ErrorObject}] :
           \A i \in DOMAIN Endpoints : resp[i] = ErrorObject => i = 1}

NextBarrier ==
    \/ RefreshClick(MaxBatchTicks)
    \/ TickResume(BarrierAnswers)

SpecBarrier == Init /\ [][NextBarrier]_vars

\* A long run of ticks, up to MaxOverlap of them in flight at once, started
\* by the page load and the refresh button and ended in each sampled way.
ChartRefresh ==
    /\ Cardinality(inflight) < MaxOverlap
    /\ RefreshClick(MaxChartTicks)

NextChart ==
    \/ ChartRefresh
    \/ TickResume(SampleAnswers)

SpecChart == Init /\ [][NextChart]_vars

-----------------------------------------------------------------------------
(* Properties of the timer lifecycle, under Spec *)

ActiveTimers == DOMAIN timers

ResumeOp == "fetchRealTimeDataResume"

\* C1: the active repeating timers are exactly {updateTimer} when updateTimer
\* is not null, and none otherwise: never two timers, never a timer without
\* its handle.
C1_TimersAreTheHandle ==
    ActiveTimers = IF updateTimer # NULL THEN {updateTimer} ELSE {}

\* A third timer has replaced two earlier ones and is the only one active.
C1_Witness ==
    /\ updateTimer = 3
    /\ ActiveTimers = {3}
    /\ lastOp.op \in {"toggleLiveMode", "startLiveUpdates",
                      "restartLiveUpdates", "onIntervalChange"}

\* Does the handler that ran last, written in the primed state, call
\* startLiveUpdates?
StartCalled ==
    \/ lastOp'.op = "startLiveUpdates"
    \/ lastOp'.op = "toggleLiveMode" /\ lastOp'.arg = 1
    \/ lastOp'.op \in {"restartLiveUpdates", "onIntervalChange"} /\ isLiveMode'

\* C2: a call of startLiveUpdates, with a timer running or not, leaves exactly
\* one repeating timer, newly scheduled with the configured interval, and
\* starts exactly one tick at once.  The constructor's call does the same.
C2_StartSchedulesOneTimerAndOneTick ==
    /\ (lastOp.op = "constructor" =>
            /\ ActiveTimers = {updateTimer}
            /\ timers[updateTimer] = updateInterval
            /\ inflight = {1} /\ lastOp.started = 1)
    /\ [][StartCalled =>
            /\ ActiveTimers' = {updateTimer'}
            /\ updateTimer' \notin ActiveTimers
            /\ updateTimer' # NULL
            /\ timers'[updateTimer'] = updateInterval'
            /\ updateInterval' > 0
            /\ lastOp'.started = 1
            /\ inflight' = inflight \cup {nextTick}
            /\ nextTick \notin inflight
            /\ loading']_vars

\* startLiveUpdates was called with a timer running and a tick in flight, for
\* the shorter interval.
C2_Witness ==
    /\ lastOp.op = "startLiveUpdates"
    /\ updateTimer > 1
    /\ timers[updateTimer] = 5000
    /\ Cardinality(inflight) >= 2

\* C3: stopLiveUpdates leaves no timer active and a null handle, starts no
\* tick, and a second call right after it changes nothing.
C3_StopIsIdempotent ==
    LET s1 == stopLiveUpdates(Dash)
        s2 == stopLiveUpdates(s1)
    IN /\ DOMAIN s1.timers = {}
       /\ s1.updateTimer = NULL
       /\ s1.started = 0
       /\ s1.inflight = inflight
       /\ s2 = s1
       /\ (lastOp.op = "stopLiveUpdates" =>
              ActiveTimers = {} /\ updateTimer = NULL /\ lastOp.started = 0)

\* stopLiveUpdates has cancelled a timer that was running.
C3_Witness ==
    /\ lastOp.op = "stopLiveUpdates"
    /\ nextTimerId > 1
    /\ updateTimer = NULL
    /\ ActiveTimers = {}
    /\ isLiveMode

\* C4 (as claimed): live mode disabled implies that no repeating timer runs.
C4_DisabledImpliesNoTimer == ~isLiveMode => ActiveTimers = {}

\* C7: a tick that ends in the catch block leaves the timer, its period, the
\* mode and the interval as they were and starts no tick itself; a timer
\* firing in live mode starts one new tick whatever the earlier ticks did.
C7_FailureKeepsPolling ==
    [][/\ (lastOp'.op = ResumeOp /\ lastOp'.outcome = "failed" =>
              /\ UNCHANGED <<updateTimer, timers, updateInterval, isLiveMode>>
              /\ lastOp'.started = 0
              /\ nextTick' = nextTick)
       /\ (lastOp'.op = "intervalCallback" /\ isLiveMode =>
              /\ UNCHANGED <<updateTimer, timers, updateInterval, isLiveMode>>
              /\ lastOp'.started = 1
              /\ inflight' = inflight \cup {nextTick})]_vars

\* Ticks 1 and 2 have both ended in the catch block (nothing was ever
\* refreshed), and the timer then fired and started tick 3.
C7_Witness ==
    /\ lastOp.op = "intervalCallback"
    /\ lastOp.started = 1
    /\ lastRefresh = 0
    /\ inflight = {3}
    /\ updateTimer \in ActiveTimers

-----------------------------------------------------------------------------
(* Properties of the fetch batch, under SpecBatch *)

Resumed == lastOp.op = ResumeOp

RejectedEndpoints ==
    {i \in DOMAIN lastResp : fetchEndpointData(lastResp[i]) = "rejected"}

ErrorNotes == {k \in DOMAIN lastOp.notes : lastOp.notes[k] = "error"}

\* C5: when any non-empty set of a tick's five fetches rejects, the tick calls
\* none of the five render functions and emits exactly one error
\* notification.
C5_RejectionRendersNothing ==
    Resumed /\ RejectedEndpoints # {} =>
        /\ lastOp.rendered = <<>>
        /\ Cardinality(ErrorNotes) = 1
        /\ lastOp.outcome = "failed"

\* Three of the five fetches of a tick rejected.
C5_Witness ==
    /\ Resumed
    /\ Cardinality(RejectedEndpoints) = 3
    /\ lastOp.rendered = <<>>
    /\ lastOp.notes = <<"error">>

\* An endpoint failed in one of the three ways the tick is to treat as a
\* failure: no connection, a status outside 2xx, a body that is not JSON.
FailedEndpoints ==
    {i \in DOMAIN lastResp :
        \/ lastResp[i].net = "error"
        \/ lastResp[i].net = "ok" /\ lastResp[i].status \notin 200..299
        \/ lastResp[i].net = "ok" /\ lastResp[i].body = "notjson"}

\* C6 (as claimed): a network error, a non-2xx response or a body that is not
\* JSON on any endpoint fails the tick: nothing is rendered, the loading
\* indicators are hidden and an error notification is emitted.
C6_EveryFailureKindFailsTheTick ==
    Resumed /\ FailedEndpoints # {} =>
        /\ lastOp.rendered = <<>>
        /\ ~loading
        /\ ErrorNotes # {}

-----------------------------------------------------------------------------
(* Properties of the trend chart, under SpecChart *)

Min(a, b) == IF a < b THEN a ELSE b

\* The last n of the points 1 .. total, in the order they were pushed.
LastPushed(total, n) == [i \in 1..n |-> total - n + i]

\* C8: the trend series never holds more than 10 points, its labels and its
\* values have the same length, and it is always the most recently pushed
\* points in the order they were pushed: a push onto 10 points evicts the
\* oldest.
C8_TrendIsLastTenPushed ==
    LET n == Min(trendAppends, TrendCap)
    IN /\ Len(trendLabels) <= TrendCap
       /\ Len(trendLabels) = Len(trendData)
       /\ trendLabels = LastPushed(trendAppends, n)
       /\ trendData = LastPushed(trendAppends, n)

\* An 11th point was pushed, by a tick that overlapped another, and the first
\* point is gone.
C8_Witness ==
    /\ trendAppends = TrendCap + 1
    /\ Len(trendLabels) = TrendCap
    /\ Head(trendLabels) = 2
    /\ Resumed /\ lastOp.outcome = "rendered"
    /\ inflight # {}

-----------------------------------------------------------------------------
(* updateVehicleStats *)

VehicleStatuses == {"In Transit", "Available", "Maintenance"}

\* data.filter(v => v.status === status).length
CountStatus(data, status) ==
    Cardinality({i \in DOMAIN data : data[i] = status})

\* Faulty variant: Math.floor in the place of Math.round.
MathRound_floor(num, den) == num \div den

\* Math.round(num / den) for den > 0: the nearest integer, a half going up.
MathRound(num, den) == (2 * num + den) \div (2 * den)

\* The four animateCounter calls updateVehicleStats makes, in order.
\* (activeVehicles / totalVehicles) * 100 is taken as the exact quotient.
updateVehicleStats(data) ==
    LET totalVehicles == Len(data)
        activeVehicles == CountStatus(data, "In Transit")
        idleVehicles == CountStatus(data, "Available")
        efficiency == IF totalVehicles > 0
                      THEN MathRound(activeVehicles * 100, totalVehicles)
                      ELSE 0
    IN <<[id |-> "totalVehicles", target |-> totalVehicles, suffix |-> <<>>],
         [id |-> "activeVehicles", target |-> activeVehicles, suffix |-> <<>>],
         [id |-> "idleVehicles", target |-> idleVehicles, suffix |-> <<>>],
         [id |-> "fleetEfficiency", target |-> efficiency,
          suffix |-> <<"%">>]>>

\* Payloads of up to MaxVehicles records.
Payloads ==
    UNION {[1..n -> VehicleStatuses] : n \in 0..MaxVehicles}

InitStats ==
    /\ InitWith(constructor(ChartNames))
    /\ AnimIdle
    /\ PageIdle
    /\ payload \in Payloads
    /\ counterCalls = <<>>

RenderVehicleStats ==
    /\ counterCalls = <<>>
    /\ counterCalls' = updateVehicleStats(payload)
    /\ UNCHANGED <<payload, dashVars, animVars, pageVars>>

NextStats == RenderVehicleStats

SpecStats == InitStats /\ [][NextStats]_vars

-----------------------------------------------------------------------------
(* animateCounter *)

DigitChars == <<"0", "1", "2", "3", "4", "5", "6", "7", "8", "9">>

IsDigit(c) == \E d \in DOMAIN DigitChars : DigitChars[d] = c

DigitValue(c) == (CHOOSE d \in DOMAIN DigitChars : DigitChars[d] = c) - 1

RECURSIVE Digits(_)
Digits(n) ==
    IF n < 10 THEN <<DigitChars[n + 1]>>
    ELSE Append(Digits(n \div 10), DigitChars[(n % 10) + 1])

\* String(n) for an integer n, as in currentValue + suffix.
NumberToString(n) == IF n < 0 THEN <<"-">> \o Digits(-n) ELSE Digits(n)

\* The value of the longest prefix of text made of digits, and its length.
RECURSIVE LeadingDigits(_, _, _)
LeadingDigits(text, value, length) ==
    IF text # <<>> /\ IsDigit(Head(text))
    THEN LeadingDigits(Tail(text), 10 * value + DigitValue(Head(text)),
                       length + 1)
    ELSE [value |-> value, length |-> length]

\* parseInt(text): leading blanks are skipped, then an optional sign and the
\* digits that follow are read; NaN when there is no digit to read.
RECURSIVE parseInt(_)
parseInt(text) ==
    IF text # <<>> /\ Head(text) = " " THEN parseInt(Tail(text))
    ELSE LET signed == text # <<>> /\ Head(text) \in {"-", "+"}
             read == LeadingDigits(IF signed THEN Tail(text) ELSE text, 0, 0)
         IN IF read.length = 0 THEN [nan |-> TRUE, value |-> 0]
            ELSE [nan |-> FALSE,
                  value |-> IF signed /\ Head(text) = "-"
                            THEN 0 - read.value ELSE read.value]

\* parseInt(element.textContent) || 0
StartValue(text) ==
    LET parsed == parseInt(text)
    IN IF parsed.nan \/ parsed.value = 0 THEN 0 ELSE parsed.value

RECURSIVE Gcd(_, _)
Gcd(a, b) == IF b = 0 THEN a ELSE Gcd(b, a % b)

\* Math.round(startValue + (targetValue - startValue) * easeOutQuart) with
\* progress = min(elapsed / duration, 1), easeOutQuart = 1 - (1 - progress)^4.
CurrentValue(startValue, targetValue, elapsed) ==
    LET e == IF elapsed < duration THEN elapsed ELSE duration
        g == Gcd(duration, e)
        num == e \div g
        den == duration \div g
        d4 == den * den * den * den
        r == den - num
        ease4 == d4 - r * r * r * r
    IN MathRound(startValue * d4 + (targetValue - startValue) * ease4, d4)

\* Faulty variant: the last frame stops the animation without writing the text.
animate_skipsLastWrite(a, text, currentTime) ==
    LET elapsed == currentTime - a.startTime
        value == CurrentValue(a.startValue, a.targetValue, elapsed)
    IN IF elapsed < duration
       THEN [anim |-> [a EXCEPT !.lastFrame = currentTime],
             element |-> NumberToString(value) \o a.suffix]
       ELSE [anim |-> [a EXCEPT !.active = FALSE, !.lastFrame = currentTime],
             element |-> text]

\* The frame callback: writes the eased value and asks for another frame
\* while progress < 1.
animate(a, text, currentTime) ==
    LET elapsed == currentTime - a.startTime
        value == CurrentValue(a.startValue, a.targetValue, elapsed)
    IN [anim |-> [a EXCEPT !.active = elapsed < duration,
                           !.lastFrame = currentTime],
        element |-> NumberToString(value) \o a.suffix]

\* animateCounter on an element that exists: reads the start value and the
\* start time, and asks for the first frame.
animateCounter(a, text, targetValue, suffix, time) ==
    [active |-> TRUE, startValue |-> StartValue(text),
     targetValue |-> targetValue, suffix |-> suffix, startTime |-> time,
     calls |-> a.calls + 1, lastFrame |-> -1]

StartTexts == {<<"0">>, <<>>, <<"-", "-">>, <<" ", "9">>, <<"4", "2">>,
               <<"6", "7", "%">>, <<"-", "5">>}
TargetValues == {0, 42, 100}
Suffixes == {<<>>, <<"%">>}

FrameStep == duration \div FramesPerDuration
MaxNow == MaxAnimations * duration + FrameStep

InitAnim ==
    /\ InitWith(constructor(ChartNames))
    /\ StatsIdle
    /\ PageIdle
    /\ now = 0
    /\ element \in StartTexts
    /\ anim = NoAnim

\* One animation at a time: a counter is animated when the one before it on
\* the same element has ended.
CallAnimateCounter ==
    \E targetValue \in TargetValues, suffix \in Suffixes :
        /\ ~anim.active
        /\ anim.calls < MaxAnimations
        /\ now + duration <= MaxNow
        /\ anim' = animateCounter(anim, element, targetValue, suffix, now)
        /\ UNCHANGED <<now, element, dashVars, statsVars, pageVars>>

TimePasses ==
    /\ now < MaxNow
    /\ now' = now + FrameStep
    /\ UNCHANGED <<element, anim, dashVars, statsVars, pageVars>>

\* The browser delivers the frame asked for, stamped with the current time;
\* the frames of one animation have increasing timestamps.
Frame ==
    /\ anim.active
    /\ now > anim.lastFrame
    /\ LET next == animate(anim, element, now)
       IN anim' = next.anim /\ element' = next.element
    /\ UNCHANGED <<now, dashVars, statsVars, pageVars>>

NextAnim == CallAnimateCounter \/ TimePasses \/ Frame

\* Time passes, and a frame that was asked for is delivered.
SpecAnim ==
    InitAnim /\ [][NextAnim]_vars /\ WF_vars(TimePasses) /\ WF_vars(Frame)

Settled ==
    /\ ~anim.active
    /\ element = NumberToString(anim.targetValue) \o anim.suffix

\* Is v on the way from a to b?
Between(a, v, b) == (a <= v /\ v <= b) \/ (b <= v /\ v <= a)

\* C9: an animation that has been started ends with the element's text being
\* exactly the target followed by the suffix and with no frame asked for;
\* until another call nothing changes the text or asks for a frame; and every
\* frame shows a value between the one shown before (the start value, for the
\* first frame) and the target.
C9_CounterSettlesOnTarget ==
    /\ anim.active ~> Settled
    /\ [][/\ (~anim.active /\ anim'.calls = anim.calls =>
                 ~anim'.active /\ element' = element)
          /\ (anim'.calls = anim.calls /\ anim'.lastFrame # anim.lastFrame =>
                 LET before == IF anim.lastFrame < 0 THEN anim.startValue
                               ELSE parseInt(element).value
                     after == parseInt(element').value
                 IN /\ ~parseInt(element').nan
                    /\ Between(before, after, anim.targetValue)
                    /\ (~anim'.active => Settled'))]_vars

\* The counter has gone from the text "0" to the text "42", its last frame
\* coming later than the animation lasts.
C9_Witness ==
    /\ anim.calls = 1
    /\ anim.startValue = 0 /\ anim.targetValue = 42
    /\ anim.lastFrame > anim.startTime + duration
    /\ ~anim.active
    /\ element = <<"4", "2">>

-----------------------------------------------------------------------------
(* updateMaintenanceAlerts *)

MaxAlerts == 4       \* alerts in a /api/maintenance_alerts payload

Urgencies == {"Critical", "Warning", "Routine"}

\* data.alerts.filter(alert => alert.urgency === urgency)
FilterUrgency(alerts, urgency) == SelectSeq(alerts, LAMBDA a : a = urgency)

\* list.forEach(alert => this.showNotification(..., type, 10000))
RECURSIVE NotifyEach(_, _, _)
NotifyEach(s, list, type) ==
    IF list = <<>>
    THEN s
    ELSE NotifyEach(showNotification(s, type), Tail(list), type)

\* Faulty variant: a notification for every alert, whatever its urgency.
updateMaintenanceAlerts_notifiesEveryAlert(container, data) ==
    LET s == [NotRendered EXCEPT !.called = TRUE]
    IN IF container /\ data.hasAlerts
       THEN LET criticalAlerts == FilterUrgency(data.alerts, "Critical")
                warningAlerts == FilterUrgency(data.alerts, "Warning")
                s1 == [s EXCEPT !.innerHTML =
                          <<[critical |-> Len(criticalAlerts),
                             warning |-> Len(warningAlerts)]>>]
            IN NotifyEach(s1, data.alerts, "error")
       ELSE s

\* The count widget written into the container (innerHTML, here the two
\* counts it shows) and the notifications emitted, in order.  Nothing is
\* done without the container or without data.alerts.
updateMaintenanceAlerts(container, data) ==
    LET s == [NotRendered EXCEPT !.called = TRUE]
    IN IF container /\ data.hasAlerts
       THEN LET criticalAlerts == FilterUrgency(data.alerts, "Critical")
                warningAlerts == FilterUrgency(data.alerts, "Warning")
                s1 == [s EXCEPT !.innerHTML =
                          <<[critical |-> Len(criticalAlerts),
                             warning |-> Len(warningAlerts)]>>]
            IN NotifyEach(s1, criticalAlerts, "error")
       ELSE s

\* Payloads {alerts: [...]} of up to MaxAlerts alerts, each of some urgency,
\* and a payload without the alerts key.
MaintenancePayloads ==
    {NoData} \cup
    {[hasAlerts |-> TRUE, alerts |-> a] :
        a \in UNION {[1..n -> Urgencies] : n \in 0..MaxAlerts}}

InitAlerts ==
    /\ InitWith(constructor(ChartNames))
    /\ StatsIdle
    /\ AnimIdle
    /\ alertsContainer \in BOOLEAN
    /\ maintenanceData \in MaintenancePayloads
    /\ alertsRender = NotRendered
    /\ ToastIdle
    /\ ThemeIdle

\* The fourth render of a tick whose five fetches were fulfilled.
RenderMaintenanceAlerts ==
    /\ ~alertsRender.called
    /\ alertsRender' = updateMaintenanceAlerts(alertsContainer, maintenanceData)
    /\ UNCHANGED <<alertsContainer, maintenanceData, dashVars, statsVars,
                   animVars, toastVars, themeVars>>

NextAlerts == RenderMaintenanceAlerts

SpecAlerts == InitAlerts /\ [][NextAlerts]_vars

CountUrgency(urgency) ==
    Cardinality({i \in DOMAIN maintenanceData.alerts :
                    maintenanceData.alerts[i] = urgency})

-----------------------------------------------------------------------------
(* Properties of the handlers, under Spec *)

\* C12: in live mode every active timer has the configured interval as its
\* period.  A change of the interval in live mode leaves exactly one timer,
\* a new one (the old one is stopped) whose period is the new interval; a
\* change with live mode off stores the new interval and leaves the timers,
\* the handle and the ticks as they were.
C12_IntervalChangeRestartsWhenLive ==
    /\ (isLiveMode => \A h \in ActiveTimers : timers[h] = updateInterval)
    /\ [][lastOp'.op = "onIntervalChange" =>
            /\ updateInterval' = lastOp'.arg * 1000
            /\ isLiveMode' = isLiveMode
            /\ IF isLiveMode
               THEN /\ ActiveTimers' = {updateTimer'}
                    /\ updateTimer' # NULL
                    /\ updateTimer' \notin ActiveTimers
                    /\ timers'[updateTimer'] = lastOp'.arg * 1000
               ELSE /\ UNCHANGED <<timers, updateTimer, nextTimerId,
                                   inflight, nextTick, loading>>
                    /\ lastOp'.started = 0]_vars

\* The interval was changed from 30 s to 5 s in live mode: the timer that
\* ran was replaced by one of period 5000.
C12_Witness ==
    /\ lastOp.op = "onIntervalChange"
    /\ lastOp.arg = 5
    /\ isLiveMode
    /\ updateTimer = 3
    /\ ActiveTimers = {3}
    /\ timers[3] = 5000

\* The handler that ran last, written in the primed state, stopped live
\* updates: stopLiveUpdates itself or toggleLiveMode(false).
StopCalled ==
    \/ lastOp'.op = "stopLiveUpdates"
    \/ lastOp'.op = "toggleLiveMode" /\ lastOp'.arg = 0

\* C13: stopping cancels the timer and nothing else: the ticks in flight
\* stay in flight and nothing they write is touched.  A tick whose five
\* fetches are then fulfilled as documented renders all five payloads,
\* updates the charts the page has and writes the last-refresh time, with
\* live mode on or off and with or without a timer, and leaves the mode and
\* the timers as they are.
C13_StopCancelsOnlyTheTimer ==
    [][/\ (StopCalled =>
              /\ ActiveTimers' = {}
              /\ updateTimer' = NULL
              /\ UNCHANGED <<inflight, nextTick, loading, lastRefresh,
                             trendData, trendLabels, trendAppends,
                             snapshotGen>>)
       /\ (lastOp'.op = ResumeOp /\ lastResp' = AllOk =>
              /\ lastOp'.arg \in inflight
              /\ inflight' = inflight \ {lastOp'.arg}
              /\ lastOp'.outcome = "rendered"
              /\ lastOp'.rendered = Renders
              /\ lastRefresh' = lastOp'.arg
              /\ trendAppends' =
                     trendAppends + (IF "carbonTrend" \in charts THEN 1 ELSE 0)
              /\ \A c \in {"fuelConsumption", "efficiency"} \cap charts :
                     snapshotGen'[c] = lastOp'.arg
              /\ UNCHANGED <<isLiveMode, timers, updateTimer>>)]_vars

\* Live mode is off and no timer is left; tick 1, the only tick ever
\* started, was in flight when the timer was stopped and has now rendered.
C13_Witness ==
    /\ ~isLiveMode
    /\ ActiveTimers = {}
    /\ updateTimer = NULL
    /\ nextTick = 2
    /\ Resumed
    /\ lastOp.arg = 1
    /\ lastOp.outcome = "rendered"
    /\ lastOp.rendered = Renders
    /\ lastRefresh = 1
    /\ trendData = <<1>>

\* C14: a tick is started whatever ticks are in flight, and they stay in
\* flight; any tick in flight, the oldest or not, can be the next to end,
\* and when it renders it writes the last-refresh time and the chart
\* snapshots even when a tick started after it has written them already.
C14_TicksRenderInAnyOrder ==
    /\ \A t \in inflight :
           LET s == fetchRealTimeDataResume(Dash, t, AllOk)
           IN /\ s.outcome = "rendered"
              /\ s.lastRefresh = t
              /\ s.inflight = inflight \ {t}
    /\ [][/\ (lastOp'.started > 0 =>
                  /\ lastOp'.started = 1
                  /\ nextTick \notin inflight
                  /\ inflight' = inflight \cup {nextTick})
           /\ (lastOp'.op = ResumeOp /\ lastOp'.outcome = "rendered" =>
                  lastRefresh' = lastOp'.arg)]_vars

\* Ticks 1 and 2 overlapped and both rendered, tick 2 first: the page shows
\* what tick 1 fetched.
C14_Witness ==
    /\ nextTick = 3
    /\ inflight = {}
    /\ trendAppends = 2
    /\ Resumed
    /\ lastOp.arg = 1
    /\ lastOp.outcome = "rendered"
    /\ lastRefresh = 1
    /\ snapshotGen = [fuelConsumption |-> 1, efficiency |-> 1]

-----------------------------------------------------------------------------
(* Properties of the join of the five fetches, under SpecBarrier *)

UnsettledOrRejected ==
    {i \in DOMAIN lastResp : fetchEndpointData(lastResp[i]) # "fulfilled"}

\* C15: a tick calls a render function only when none of its five fetches
\* is pending or rejected; with one pending or rejected it calls none,
\* updates no chart and does not write the last-refresh time.  A tick that
\* called some render functions and not all five had all five fetches
\* fulfilled (one of its renders threw on the payload).
C15_RendersOnlyAfterAllFive ==
    /\ (Resumed /\ lastOp.rendered # <<>> => UnsettledOrRejected = {})
    /\ (Resumed /\ UnsettledOrRejected # {} =>
            /\ lastOp.rendered = <<>>
            /\ lastOp.outcome = "failed"
            /\ lastRefresh # lastOp.arg)
    /\ (Resumed /\ UnsettledOrRejected = {} /\ lastOp.outcome = "rendered" =>
            lastOp.rendered = Renders)

\* The tick ended while three of its fetches were still pending, one had
\* been fulfilled and one rejected: nothing was rendered.
C15_Witness ==
    /\ Resumed
    /\ Cardinality({i \in DOMAIN lastResp : lastResp[i] = Pending}) = 3
    /\ Cardinality(RejectedEndpoints) = 1
    /\ lastOp.rendered = <<>>
    /\ lastOp.outcome = "failed"

-----------------------------------------------------------------------------
(* Frame of the charts and of the last-refresh time, under Spec *)

refreshVars == <<trendLabels, trendData, trendAppends, snapshotGen,
                 lastRefresh>>

\* C16: the trend series, the two snapshot series and the last-refresh time
\* change only in the step of a tick that runs to the end of its try block.
\* Such a tick pushes exactly one point onto the trend series of a page that
\* has the trend chart, leaves the loading indicators hidden and the
\* last-refresh time its own; a tick that ends with the error notification
\* leaves all of them as they were.
C16_OnlySuccessfulTicksRefresh ==
    [][/\ (refreshVars' # refreshVars =>
              lastOp'.op = ResumeOp /\ lastOp'.outcome = "rendered")
       /\ (lastOp'.op = ResumeOp /\ lastOp'.outcome = "rendered" =>
              /\ ~loading'
              /\ lastRefresh' = lastOp'.arg
              /\ IF "carbonTrend" \in charts
                 THEN /\ trendAppends' = trendAppends + 1
                      /\ Len(trendData') = Min(Len(trendData) + 1, TrendCap)
                      /\ trendData'[Len(trendData')] = trendAppends + 1
                 ELSE UNCHANGED <<trendLabels, trendData, trendAppends>>)
       /\ (lastOp'.op = ResumeOp /\ lastOp'.outcome = "failed" =>
              /\ lastOp'.notes = <<"error">>
              /\ ~loading'
              /\ UNCHANGED refreshVars)]_vars

\* Tick 1 rendered; tick 2 then called its first render, which threw, and
\* ended with the error notification: the point and the time of tick 1 stay.
C16_Witness ==
    /\ Resumed
    /\ lastOp.arg = 2
    /\ lastOp.outcome = "failed"
    /\ lastOp.rendered # <<>>
    /\ lastOp.notes = <<"error">>
    /\ trendData = <<1>>
    /\ lastRefresh = 1
    /\ snapshotGen = [fuelConsumption |-> 1, efficiency |-> 1]

\* C17: after toggleLiveMode(enabled) a repeating timer is active exactly
\* when enabled is true.  Enabling, from either mode, leaves exactly one
\* timer, a new one, starts exactly one tick and emits one success
\* notification; disabling starts no tick and emits one info notification.
C17_ToggleSetsTheTimer ==
    [][lastOp'.op = "toggleLiveMode" =>
          /\ isLiveMode' = (lastOp'.arg = 1)
          /\ (ActiveTimers' # {}) = (lastOp'.arg = 1)
          /\ IF lastOp'.arg = 1
             THEN /\ Cardinality(ActiveTimers') = 1
                  /\ ActiveTimers' = {updateTimer'}
                  /\ updateTimer' \notin ActiveTimers
                  /\ lastOp'.started = 1
                  /\ inflight' = inflight \cup {nextTick}
                  /\ nextTick' = nextTick + 1
                  /\ lastOp'.notes = <<"success">>
             ELSE /\ updateTimer' = NULL
                  /\ lastOp'.started = 0
                  /\ UNCHANGED <<inflight, nextTick>>
                  /\ lastOp'.notes = <<"info">>]_vars

\* Live mode was enabled when two timers had already been set, the second
\* still running: the third timer is the only one, and a third tick started.
C17_Witness ==
    /\ lastOp.op = "toggleLiveMode"
    /\ lastOp.arg = 1
    /\ lastOp.notes = <<"success">>
    /\ isLiveMode
    /\ nextTimerId = 4
    /\ ActiveTimers = {3}
    /\ nextTick = 4
    /\ updateInterval = DefaultIntervalMs

-----------------------------------------------------------------------------
(* showNotification: the toasts *)

MaxToasts == 2        \* toasts created in one run of SpecToast
MaxClockSteps == 3    \* the clock runs to MaxClockSteps * DefaultDuration

DefaultDuration == 5000     \* showNotification(message, type, duration = 5000)
CriticalDuration == 10000   \* the duration updateMaintenanceAlerts passes

Durations == {DefaultDuration, CriticalDuration}

\* The elements of a toast: div.toast-enhanced > div.toast-content >
\* button.toast-close.  dom.toast[k]: is toast k a child of the body;
\* dom.content[k]: is its content a child of the toast.
Body == [tag |-> "body", id |-> 0]
NoNode == [tag |-> "null", id |-> 0]
ToastNode(k) == [tag |-> "toast", id |-> k]
ContentNode(k) == [tag |-> "content", id |-> k]
CloseButton(k) == [tag |-> "close", id |-> k]

Toasts ==
    [dom |-> dom, timeouts |-> timeouts, clock |-> clock,
     removeCalls |-> removeCalls]

ApplyToast(ts, op, k) ==
    /\ dom' = ts.dom
    /\ timeouts' = ts.timeouts
    /\ clock' = ts.clock
    /\ removeCalls' = ts.removeCalls
    /\ toastOp' = [op |-> op, id |-> k]
    /\ UNCHANGED <<dashVars, statsVars, animVars, alertsVars, themeVars>>

\* node.parentElement
parentElement(d, node) ==
    CASE node.tag = "close" -> ContentNode(node.id)
      [] node.tag = "content" ->
            IF d.content[node.id] THEN ToastNode(node.id) ELSE NoNode
      [] node.tag = "toast" -> IF d.toast[node.id] THEN Body ELSE NoNode
      [] OTHER -> NoNode

\* node.remove(), called by the handler named by: the node leaves its parent.
remove(ts, node, by) ==
    CASE node.tag = "toast" ->
            [ts EXCEPT !.dom.toast[node.id] = FALSE,
                       !.removeCalls[node.id] = Append(@, by)]
      [] node.tag = "content" -> [ts EXCEPT !.dom.content[node.id] = FALSE]
      [] OTHER -> ts

\* setTimeout(callback, delay) for toast k; clearTimeout is never called.
setTimeout(ts, k, delay) ==
    [ts EXCEPT !.timeouts = [j \in DOMAIN ts.timeouts \cup {k} |->
                                IF j = k THEN ts.clock + delay
                                ELSE ts.timeouts[j]]]

\* showNotification as far as the page goes: the toast is built, appended to
\* the body and its removal scheduled.
showNotificationToast(ts, delay) ==
    LET k == Len(ts.dom.toast) + 1
        ts1 == [ts EXCEPT !.dom.toast = Append(@, TRUE),
                          !.dom.content = Append(@, TRUE),
                          !.removeCalls = Append(@, <<>>)]
    IN setTimeout(ts1, k, delay)

\* The callback handed to setTimeout, run by the browser for toast k.
timeoutCallback(ts, k) ==
    LET ts1 == [ts EXCEPT !.timeouts =
                   [j \in DOMAIN ts.timeouts \ {k} |-> ts.timeouts[j]]]
    IN IF parentElement(ts1.dom, ToastNode(k)) # NoNode
       THEN remove(ts1, ToastNode(k), "timeout")
       ELSE ts1

\* Faulty variant: one parentElement only, the content leaves the toast.
closeClick_removesContent(ts, k) ==
    remove(ts, parentElement(ts.dom, CloseButton(k)), "closeClick")

\* onclick of the close button: this.parentElement.parentElement.remove()
closeClick(ts, k) ==
    remove(ts,
           parentElement(ts.dom, parentElement(ts.dom, CloseButton(k))),
           "closeClick")

ClockEnd == MaxClockSteps * DefaultDuration

\* Some handler shows a notification; the model creates a toast only when its
\* timeout falls within the time it covers.
ShowNotification ==
    \E delay \in Durations :
        /\ Len(dom.toast) < MaxToasts
        /\ clock + delay <= ClockEnd
        /\ ApplyToast(showNotificationToast(Toasts, delay), "showNotification",
                      Len(dom.toast) + 1)

\* The user clicks the close button of a toast that is displayed.
CloseClick ==
    \E k \in DOMAIN dom.toast :
        /\ dom.toast[k] /\ dom.content[k]
        /\ ApplyToast(closeClick(Toasts, k), "closeClick", k)

\* The browser runs the timeout callback of toast k, at its due time or later.
TimeoutFires(k) ==
    /\ k \in DOMAIN timeouts
    /\ clock >= timeouts[k]
    /\ ApplyToast(timeoutCallback(Toasts, k), "timeout", k)

ClockTick ==
    /\ clock < ClockEnd
    /\ clock' = clock + DefaultDuration
    /\ toastOp' = [op |-> "clock", id |-> 0]
    /\ UNCHANGED <<dom, timeouts, removeCalls, dashVars, statsVars, animVars,
                   alertsVars, themeVars>>

NextToast ==
    \/ ShowNotification
    \/ CloseClick
    \/ \E k \in 1..MaxToasts : TimeoutFires(k)
    \/ ClockTick

\* Time passes and the browser runs every timeout callback that is due.
SpecToast ==
    /\ Init
    /\ [][NextToast]_vars
    /\ WF_vars(ClockTick)
    /\ \A k \in 1..MaxToasts : WF_vars(TimeoutFires(k))

Displayed(k) == k \in DOMAIN dom.toast /\ dom.toast[k]

TimeoutOf(t, k) == IF k \in DOMAIN t THEN t[k] ELSE -1

\* C18: every toast is removed by exactly one call of remove() and is
\* displayed until then; once its timeout has fired it is gone, and it is
\* always gone in the end.  A click on its close button removes it at once
\* and leaves its timeout pending, and the timeout that fires later does
\* nothing.  A step changes the display, the timeout and the remove() calls
\* of the handler's own toast only.
C18_ToastRemovedOnceOnItsOwn ==
    /\ \A k \in DOMAIN dom.toast :
           /\ Len(removeCalls[k]) <= 1
           /\ dom.toast[k] = (removeCalls[k] = <<>>)
           /\ (k \notin DOMAIN timeouts => ~dom.toast[k])
    /\ [][/\ \A k \in DOMAIN dom.toast :
                  \/ /\ dom'.toast[k] = dom.toast[k]
                     /\ dom'.content[k] = dom.content[k]
                     /\ removeCalls'[k] = removeCalls[k]
                     /\ TimeoutOf(timeouts', k) = TimeoutOf(timeouts, k)
                  \/ toastOp'.id = k /\ toastOp'.op \in {"closeClick", "timeout"}
           /\ (toastOp'.op = "closeClick" =>
                  /\ ~dom'.toast[toastOp'.id]
                  /\ removeCalls'[toastOp'.id] = <<"closeClick">>
                  /\ timeouts' = timeouts)
           /\ (toastOp'.op = "timeout" =>
                  /\ clock >= timeouts[toastOp'.id]
                  /\ ~dom'.toast[toastOp'.id]
                  /\ toastOp'.id \notin DOMAIN timeouts'
                  /\ (~dom.toast[toastOp'.id] =>
                         dom' = dom /\ removeCalls' = removeCalls))]_vars
    /\ \A k \in 1..MaxToasts : Displayed(k) ~> ~Displayed(k)

\* Toast 1 was closed by the user and its timeout has now fired, to no
\* effect; toast 2, created before that, is still displayed and its timeout
\* is still pending.
C18_Witness ==
    /\ toastOp = [op |-> "timeout", id |-> 1]
    /\ removeCalls[1] = <<"closeClick">>
    /\ Len(dom.toast) >= 2
    /\ ~dom.toast[1]
    /\ dom.toast[2]
    /\ 2 \in DOMAIN timeouts

-----------------------------------------------------------------------------
(* Dark mode (static/js/dashboard-common.js) *)

MaxThemeOps == 6      \* page loads and toggles in one run of SpecTheme

\* String(value) of a boolean, as localStorage.setItem stores it.
BoolToString(b) == IF b THEN "true" ELSE "false"

\* localStorage.setItem('darkMode', value); store holds the item, if any.
setItem(th, value) == [th EXCEPT !.store = <<BoolToString(value)>>]

\* localStorage.getItem('darkMode') === 'true'
StoredIsTrue(th) == th.store = <<"true">>

\* Faulty variant: the state is read before the class is toggled.
toggleDarkMode_storesOldState(th) ==
    LET isDark == th.dark
        th1 == [th EXCEPT !.dark = ~@]
        th2 == [th1 EXCEPT !.label = IF isDark THEN "Light" ELSE "Dark"]
    IN setItem(th2, isDark)

toggleDarkMode(th) ==
    LET th1 == [th EXCEPT !.dark = ~@]
        isDark == th1.dark
        th2 == [th1 EXCEPT !.label = IF isDark THEN "Light" ELSE "Dark"]
    IN setItem(th2, isDark)

\* The script run at page load, on a new document: the body has no
\* dark-mode class and the toggle shows the label of the markup.
loadPreference(store) ==
    LET th == [dark |-> FALSE, store |-> store, label |-> "markup"]
    IN IF StoredIsTrue(th)
       THEN [th EXCEPT !.dark = TRUE, !.label = "Light"]
       ELSE th

\* An entry of the log: the operation and what it left.
Logged(op, th) == [op |-> op, dark |-> th.dark, store |-> th.store]

\* What a profile can hold when a page is loaded: nothing, or what an
\* earlier toggle stored.
StoredValues == {<<>>, <<"true">>, <<"false">>}

InitTheme ==
    /\ InitWith(constructor(ChartNames))
    /\ StatsIdle
    /\ AnimIdle
    /\ AlertsIdle
    /\ ToastIdle
    /\ \E store \in StoredValues : theme = loadPreference(store)
    /\ themeLog = <<Logged("load", theme)>>

ToggleDarkMode ==
    /\ Len(themeLog) < MaxThemeOps
    /\ theme' = toggleDarkMode(theme)
    /\ themeLog' = Append(themeLog, Logged("toggle", theme'))
    /\ UNCHANGED <<dashVars, statsVars, animVars, alertsVars, toastVars>>

\* The page is loaded again, or another page of the site is opened.
PageLoad ==
    /\ Len(themeLog) < MaxThemeOps
    /\ theme' = loadPreference(theme.store)
    /\ themeLog' = Append(themeLog, Logged("load", theme'))
    /\ UNCHANGED <<dashVars, statsVars, animVars, alertsVars, toastVars>>

NextTheme == ToggleDarkMode \/ PageLoad

SpecTheme == InitTheme /\ [][NextTheme]_vars

LastThemeOp == themeLog[Len(themeLog)].op

\* The last two operations were toggles.
ToggledTwice ==
    /\ Len(themeLog) >= 3
    /\ themeLog[Len(themeLog)].op = "toggle"
    /\ themeLog[Len(themeLog) - 1].op = "toggle"

\* What the operation before the last two left.
BeforeLastTwo == themeLog[Len(themeLog) - 2]

\* C19 (as claimed): after a toggle the stored value is the string of
\* whether the body has the class, at load the class is applied iff the
\* stored value is the string true, and two toggles in a row restore the
\* class and the stored value.
C19_TwoTogglesRestoreClassAndStore ==
    /\ (LastThemeOp = "toggle" => theme.store = <<BoolToString(theme.dark)>>)
    /\ (LastThemeOp = "load" => theme.dark = StoredIsTrue(theme))
    /\ (ToggledTwice =>
            /\ theme.dark = BeforeLastTwo.dark
            /\ theme.store = BeforeLastTwo.store)

\* C19 (amended): after a toggle the stored value is the string of whether
\* the body has the class, and at load the class is applied iff the stored
\* value is the string true.  Two toggles in a row restore the class, and
\* the stored value when one was stored before them; with nothing stored
\* they leave the string false.
C19_StoreMirrorsClassAfterToggle ==
    /\ (LastThemeOp = "toggle" => theme.store = <<BoolToString(theme.dark)>>)
    /\ (LastThemeOp = "load" => theme.dark = StoredIsTrue(theme))
    /\ (ToggledTwice =>
            /\ theme.dark = BeforeLastTwo.dark
            /\ theme.store = IF BeforeLastTwo.store = <<>>
                             THEN <<"false">>
                             ELSE BeforeLastTwo.store)

\* Dark mode was stored when the page loaded with the class applied; two
\* toggles later the body has the class again and the string true is stored.
C19_Witness ==
    /\ Len(themeLog) = 3
    /\ themeLog[1] = [op |-> "load", dark |-> TRUE, store |-> <<"true">>]
    /\ ToggledTwice
    /\ themeLog[2].store = <<"false">>
    /\ theme.dark
    /\ theme.store = <<"true">>
    /\ theme.label = "Light"

-----------------------------------------------------------------------------
(* The timer callback, under Spec *)

\* Everything of the program and the page but the record of the last handler.
programVars == <<isLiveMode, updateInterval, updateTimer, timers, nextTimerId,
                 inflight, nextTick, loading, lastRefresh, charts,
                 trendLabels, trendData, trendAppends, snapshotGen,
                 statsVars, animVars, pageVars>>

\* C20: a firing of the repeating timer starts a tick exactly when live mode
\* is on at that moment, and then exactly one; with live mode off it issues
\* no fetch, shows no loading indicator, emits no notification and changes
\* nothing.
C20_TimerFiresOnlyInLiveMode ==
    [][lastOp'.op = "intervalCallback" =>
          /\ lastOp'.arg \in ActiveTimers
          /\ lastOp'.notes = <<>>
          /\ IF isLiveMode
             THEN /\ lastOp'.started = 1
                  /\ inflight' = inflight \cup {nextTick}
                  /\ loading'
             ELSE /\ lastOp'.started = 0
                  /\ UNCHANGED programVars]_vars

\* The timer the page load created has fired before any toggle: tick 1 is
\* still the only tick.
C20_Witness ==
    /\ lastOp.op = "intervalCallback"
    /\ lastOp.arg = 1
    /\ lastOp.started = 0
    /\ ~isLiveMode
    /\ ActiveTimers = {1}
    /\ nextTimerId = 2
    /\ nextTick = 2
    /\ inflight = {1}

-----------------------------------------------------------------------------
(* The loading indicators, under Spec *)

\* C21: a tick leaves the loading indicators hidden however it ends: all
\* five payloads rendered, a fetch rejected, or a render throwing.  So
\* whenever no tick is in flight the indicators are hidden, however the
\* ticks overlapped; they are shown by the start of a tick only.
C21_IdleImpliesIndicatorsHidden ==
    /\ (inflight = {} => ~loading)
    /\ [][/\ (lastOp'.op = ResumeOp =>
                  /\ lastOp'.outcome \in {"rendered", "failed"}
                  /\ ~loading')
           /\ (~loading /\ loading' => lastOp'.started = 1)]_vars

\* Three ticks overlapped; the last of them to end called its first render,
\* which threw, and no tick is in flight: the indicators are hidden.
C21_Witness ==
    /\ inflight = {}
    /\ nextTick = 4
    /\ ~loading
    /\ Resumed
    /\ lastOp.arg = 1
    /\ lastOp.outcome = "failed"
    /\ lastOp.rendered # <<>>
    /\ lastRefresh = 3

====
